---- MODULE Spec2Model ----
(***************************************************************************)
(* Unified data access layer of football-serie-a:                          *)
(* app/data/services/unified_data_service.py (UnifiedDataService), the    *)
(* three providers under app/data/providers/ and the Redis wrapper         *)
(* app/data/cache/redis_client.py.                                         *)
(*                                                                         *)
(* Every query coroutine is a task; one action is the code a task runs     *)
(* between two suspension points (await of Redis, of an HTTP call, of      *)
(* asyncio.sleep), as the asyncio scheduler runs it.                       *)
(***************************************************************************)
EXTENDS Integers, Sequences, FiniteSets, TLC

\* ------------------------------------------------------------------ bounds
\* a run is explored up to ShortHorizon seconds with every upstream outcome,
\* or up to LongHorizon seconds, in steps of Step seconds, with the
\* multi-provider operations never receiving a malformed payload (so that no
\* retry backoff of 1 s or 2 s subdivides the long run)
ShortHorizon == 6
LongHorizon == 400
Step == 100
NumTasks == 2
MaxTimers == 2
MaxKeys == 1
\* runs with an injected fault, or with two concurrent callers, are explored
\* up to FaultHorizon seconds; in a run with failing metrics the raising
\* emission of a query is one of its first MaxEmit emissions
FaultHorizon == 1
MaxEmit == 3
\* the queries the two callers of a concurrent run issue between them
PairQueries == 2
\* the live-score queries the two callers of a burst issue between them
BurstQueries == 4
\* a Celery worker process is explored up to WorkerHorizon seconds, the
\* time three syncs take to exhaust their retries on one provider
WorkerHorizon == 9

Tasks == 1..NumTasks

\* ------------------------------------------------------- program constants
max_failures == 3
reset_timeout == 300
max_retries == 2
REDIS_CACHE_TTL_LIVE == 300
REDIS_CACHE_TTL_STATIC == 86400
SecondsPerDay == 24 * 60 * 60

\* self.providers, in the order __init__ builds the list
\* variant used to test C2: the first two providers exchanged
ProvidersSwapped == <<"football_data", "api_football", "statsbomb">>

Providers == <<"api_football", "football_data", "statsbomb">>
ProviderNames == {Providers[i] : i \in 1..Len(Providers)}

\* seconds since midnight at which the process may have started
BootTimes == {0, SecondsPerDay - 2}

\* ------------------------------------------------------------------ values
None == [t |-> "None"]
Raise == [t |-> "raise"]
Model(src) == [t |-> "model", src |-> src]
Str(src) == [t |-> "str", src |-> src]
List(items) == [t |-> "list", items |-> items]
Nil == [t |-> "nil"]

\* Python truthiness of a result (if cached_data:, if stale_data:)
Truthy(v) ==
  CASE v.t = "None" -> FALSE
    [] v.t = "list" -> Len(v.items) > 0
    [] OTHER -> TRUE

\* json.dumps(data, default=str): a pydantic object is not serialisable and
\* is replaced by str(obj)
DumpItem(v) == IF v.t = "model" THEN Str(v.src) ELSE v
Dumps(v) ==
  IF v.t = "list"
  THEN [json |-> List([k \in 1..Len(v.items) |-> DumpItem(v.items[k])])]
  ELSE [json |-> DumpItem(v)]

\* json.loads(text)
Loads(text) == text.json

\* ----------------------------------------------------------------- queries
Kinds == {"live", "fixtures", "match", "standings"}
Leagues == {"serie_a", "norway", "premier", "bundesliga", "laliga"}
\* matchday arguments; NoMatchday stands for matchday=None
NoMatchday == 0 - 1
Matchdays == {NoMatchday, 21}
MatchIds == {7}
NoArg == 0

Queries ==
  [kind : {"live", "standings"}, league : Leagues, arg : {NoArg}]
    \cup [kind : {"fixtures"}, league : Leagues, arg : Matchdays]
    \cup [kind : {"match"}, league : {"serie_a"}, arg : MatchIds]

\* the operations that iterate self.providers
IsGeneral(q) == q.league = "serie_a"

\* settings.<LEAGUE>_LEAGUE_ID exists in Settings
LeagueIdDefined(league) == league \in {"serie_a", "norway"}

\* cache_key of each operation: the f-string's prefix (operation and
\* league) and its suffix (date, matchday or 'all', match id, 'current')
CacheKey(q, date) ==
  [kind |-> q.kind, league |-> q.league,
   sub |-> CASE q.kind = "live" -> date
             [] q.kind = "fixtures" -> q.arg
             [] q.kind = "match" -> q.arg
             [] q.kind = "standings" -> 0]

Dates == 0..1
Keys ==
  UNION {{CacheKey(q, d) : d \in Dates} : q \in Queries}

\* the TTL class each operation passes to _set_to_cache
TTLOf(q) ==
  IF q.kind = "live" THEN REDIS_CACHE_TTL_LIVE ELSE REDIS_CACHE_TTL_STATIC

\* ---------------------------------------------------------------- providers
\* what the upstream HTTP exchange does
Upstream == {"items", "empty", "neterr", "malformed"}

\* BaseDataProvider._make_request: every exception becomes None
MakeRequest(up) == IF up = "neterr" THEN "null" ELSE up

ListResult(p, data) ==
  CASE data = "null" -> List(<<>>)
    [] data = "empty" -> List(<<>>)
    [] data = "items" -> List(<<Model(p)>>)
    [] OTHER -> Raise

ItemResult(p, data) ==
  CASE data = "null" -> None
    [] data = "empty" -> None
    [] data = "items" -> Model(p)
    [] OTHER -> Raise

ApiFootballOp(q, up) ==
  IF q.kind \in {"live", "fixtures"}
  THEN ListResult("api_football", MakeRequest(up))
  ELSE ItemResult("api_football", MakeRequest(up))

FootballDataOp(q, up) ==
  CASE q.kind = "live" -> ListResult("football_data", MakeRequest(up))
    [] q.kind = "match" -> ItemResult("football_data", MakeRequest(up))
    [] q.kind = "standings" -> Model("football_data")
    [] q.kind = "fixtures" ->
         IF q.arg \in {NoMatchday, 0, 19, 20}
         THEN List(<<Model("football_data")>>)
         ELSE List(<<>>)

StatsBombOp(q, up) ==
  CASE q.kind = "live" -> List(<<>>)
    [] q.kind = "match" -> None
    [] q.kind = "standings" -> Raise
    [] q.kind = "fixtures" -> List(<<>>)

ProviderOp(p, q, up) ==
  CASE p = "api_football" -> ApiFootballOp(q, up)
    [] p = "football_data" -> FootballDataOp(q, up)
    [] p = "statsbomb" -> StatsBombOp(q, up)

\* the provider coroutine awaits the network (otherwise it completes
\* without yielding to the event loop)
Suspends(p, kind) ==
  \/ p = "api_football"
  \/ p = "football_data" /\ kind \in {"live", "match"}

\* ------------------------------------------------------------------- state
VARIABLES
  now,       \* seconds since the process started (event-loop clock)
  horizon,   \* the instant up to which this run is explored
  mode,      \* the environment of this run, one of Modes
  quota,     \* queries still to be issued in a run with two callers
  boot,      \* seconds since midnight at which the process started
  state,     \* circuit_breaker_state
  failures,  \* circuit_breaker_failures
  timers,    \* pending _reset_circuit_breaker tasks, in creation order
  cache,     \* the Redis keyspace: key -> [val, exp] or Nil
  task,      \* the query coroutines
  openedAt,  \* observation: when each breaker last went CLOSED -> OPEN
  written    \* observation: the last value ever written under each key

vars == <<now, horizon, mode, quota, boot, state, failures, timers, cache, task, openedAt, written>>

\* datetime.now().strftime('%Y-%m-%d'), as a day number
Date(t) == (boot + t) \div SecondsPerDay

IdleTask ==
  [pc |-> "idle", q |-> None, key |-> None, idx |-> 0, attempt |-> 0,
   wake |-> 0, result |-> None, via |-> "-", log |-> <<>>,
   sawEntry |-> FALSE, staleSaw |-> Nil, doneAt |-> 0,
   em |-> 0, cerr |-> {}, raced |-> FALSE, readSaw |-> Nil, fb |-> "-"]

\* the environments explored: one caller at a time with Redis and the
\* metrics registry working ("single"); Redis failing at will ("store");
\* an emission of a query raising ("metrics"); two concurrent callers
\* ("pair")
Modes == {"single", "store", "metrics", "pair"}

\* the environments of a process with working metrics: the above without
\* "metrics", two callers polling live scores ("burst"), and a Celery
\* worker whose sync tasks each run one query under asyncio.run ("worker")
ProcessModes == {"single", "store", "pair", "burst", "worker"}

Start(modes) ==
  /\ now = 0
  /\ mode \in modes
  /\ quota = IF mode = "pair" THEN PairQueries
             ELSE IF mode = "burst" THEN BurstQueries ELSE 0
  /\ horizon \in (IF mode = "single" THEN {ShortHorizon, LongHorizon}
                  ELSE IF mode = "worker" THEN {WorkerHorizon}
                  ELSE {FaultHorizon})
  /\ boot \in BootTimes
  /\ state = [p \in ProviderNames |-> "CLOSED"]
  /\ failures = [p \in ProviderNames |-> 0]
  /\ timers = <<>>
  /\ cache = [k \in Keys |-> Nil]
  /\ task = [t \in Tasks |-> IdleTask]
  /\ openedAt = [p \in ProviderNames |-> 0]
  /\ written = [k \in Keys |-> Nil]

\* a service instance serving one caller at a time, everything around it
\* working
Init == Start({"single"})

\* the same, or one of the faulty or concurrent environments
InitEnv == Start(Modes)

\* the same with working metrics, serving the API or run by Celery
InitProc == Start(ProcessModes)

\* --------------------------------------------------------------- the cache
\* RedisClient.get: the value, or nothing once the key's TTL has run out
RedisGet(k) ==
  IF cache[k] # Nil /\ cache[k].exp > now THEN cache[k].val ELSE Nil

\* UnifiedDataService._get_from_cache
GetFromCache(k) ==
  LET cached == RedisGet(k)
  IN IF cached # Nil THEN Loads(cached) ELSE None

\* variant used to test C29: the stale read ignores the TTL and returns the
\* last value written under the key
GetStaleDataIgnoringTTL(k) ==
  IF written[k] # Nil THEN Loads(written[k].val) ELSE None

\* UnifiedDataService._get_stale_data
GetStaleData(k) ==
  LET stale == RedisGet(k)
  IN IF stale # Nil THEN Loads(stale) ELSE None

\* variant used to test C19: the first value written under a key is kept
SetToCacheOnce(k, data, ttl) ==
  IF cache[k] # Nil THEN cache
  ELSE [cache EXCEPT ![k] =
          [val |-> Dumps(data),
           exp |-> IF now + ttl > horizon THEN horizon + 1 ELSE now + ttl]]

\* RedisClient.setex as _set_to_cache calls it (an expiry beyond the horizon
\* is stored as horizon + 1: no read of the run tells them apart)
SetToCache(k, data, ttl) ==
  [cache EXCEPT ![k] =
     [val |-> Dumps(data),
      exp |-> IF now + ttl > horizon THEN horizon + 1 ELSE now + ttl]]

\* -------------------------------------------------------- circuit breaker
\* a running query between two suspension points: the breaker it mutates
\* and the log of what it did   (c: [q, st, fl, tm, oa, log, em])
Logged(c, e) == [c EXCEPT !.log = Append(@, e)]

\* monitor_api_call / track_fallback_activation: c.em counts down to the
\* emission of the query that raises (0: none does)
EmitRaises(c) == c.em = 1
Emitted(c) == [c EXCEPT !.em = IF @ > 0 THEN @ - 1 ELSE 0]
EmitFailed(c, p, at) ==
  Logged(Emitted(c), [ev |-> "emit_raise", p |-> p, at |-> at])

\* variant used to test C4: the breaker opens one failure late
HandleProviderFailureLate(c, p) ==
  LET n == c.fl[p] + 1
      opens == n > max_failures
  IN [c EXCEPT
        !.fl[p] = n,
        !.st[p] = IF opens THEN "OPEN" ELSE @,
        !.tm = IF opens
               THEN Append(@, [p |-> p, at |-> now + reset_timeout])
               ELSE @,
        !.oa[p] = IF opens /\ c.st[p] = "CLOSED" THEN now ELSE @]

\* variant used to test C20: every attempt of the call is counted
HandleProviderFailurePerAttempt(c, p) ==
  LET n == c.fl[p] + max_retries + 1
      opens == n >= max_failures
  IN [c EXCEPT
        !.fl[p] = n,
        !.st[p] = IF opens THEN "OPEN" ELSE @,
        !.tm = IF opens
               THEN Append(@, [p |-> p, at |-> now + reset_timeout])
               ELSE @,
        !.oa[p] = IF opens /\ c.st[p] = "CLOSED" THEN now ELSE @]

\* variant used to test C21: the count stops at the threshold
HandleProviderFailureCapped(c, p) ==
  LET n == IF c.fl[p] < max_failures THEN c.fl[p] + 1 ELSE c.fl[p]
      opens == n >= max_failures
  IN [c EXCEPT
        !.fl[p] = n,
        !.st[p] = IF opens THEN "OPEN" ELSE @,
        !.tm = IF opens
               THEN Append(@, [p |-> p, at |-> now + reset_timeout])
               ELSE @,
        !.oa[p] = IF opens /\ c.st[p] = "CLOSED" THEN now ELSE @]

\* UnifiedDataService._handle_provider_failure
HandleProviderFailure(c, p) ==
  LET n == c.fl[p] + 1
      opens == n >= max_failures
  IN [c EXCEPT
        !.fl[p] = n,
        !.st[p] = IF opens THEN "OPEN" ELSE @,
        !.tm = IF opens
               THEN Append(@, [p |-> p, at |-> now + reset_timeout])
               ELSE @,
        !.oa[p] = IF opens /\ c.st[p] = "CLOSED" THEN now ELSE @]

\* the except branch of an operation: monitor_api_call(.., "error"), then
\* _handle_provider_failure; an exception of the emission leaves the
\* operation
OnException(c, p) ==
  IF EmitRaises(c)
  THEN [escapes |-> TRUE, c |-> EmitFailed(c, p, "error")]
  ELSE [escapes |-> FALSE, c |-> HandleProviderFailure(Emitted(c), p)]

\* variant used to test C14: a success clears the provider's failure count
RecordSuccessClears(c, p) == [c EXCEPT !.fl[p] = 0]

\* what an accepted result does to the breaker: the success branch of every
\* operation touches neither circuit_breaker_failures nor the state
RecordSuccess(c, p) == c

\* variant used to test C13: the same pause after every failed attempt
BackoffFlat(attempt) == 1

\* the pause of _execute_with_retry after failed attempt number attempt
Backoff(attempt) == 1 * (attempt + 1)

\* where a query stops at its next await
Suspended(c, pc, idx, attempt, wake, result) ==
  [pc |-> pc, idx |-> idx, attempt |-> attempt, wake |-> wake,
   result |-> result, c |-> c]

\* variant used to test C9: the acceptance test inverted
AcceptsInverted(q, res) == res.t = "None"

\* variant used to test C11: get_fixtures tests the result like the others
AcceptsNotNone(q, res) == res.t # "None"

\* variant used to test C12: every operation goes on after an empty list
AcceptsNonEmpty(q, res) ==
  res.t # "None" /\ ~(res.t = "list" /\ Len(res.items) = 0)

\* result handling of each multi-provider operation after _execute_with_retry
Accepts(q, res) ==
  IF q.kind = "fixtures"
  THEN res.t # "None" /\ ~(res.t = "list" /\ Len(res.items) = 0)
  ELSE res.t # "None"

\* the for-loop over self.providers, _execute_with_retry included, run from
\* the top of iteration i up to the next await
RECURSIVE RunLoop(_, _), Invoke(_, _, _), AfterCall(_, _, _, _)
RunLoop(c, i) ==
  IF i > Len(Providers)
  THEN Suspended(c, "stale_get", i, 0, 0, None)
  ELSE IF c.st[Providers[i]] = "OPEN"
       THEN RunLoop(Logged(c, [ev |-> "skip", p |-> Providers[i],
                               brk |-> c.st[Providers[i]]]), i + 1)
       ELSE Invoke(c, i, 0)

Invoke(c, i, attempt) ==
  LET p == Providers[i]
      c1 == Logged(c, [ev |-> "invoke", p |-> p, brk |-> c.st[p]])
  IN IF Suspends(p, c.q.kind)
     THEN Suspended(c1, "call", i, attempt, 0, None)
     ELSE AfterCall(c1, i, attempt, "local")

AfterCall(c, i, attempt, up) ==
  LET p == Providers[i]
      res == ProviderOp(p, c.q, up)
  IN IF res = Raise
     THEN IF attempt = max_retries
          THEN LET x == OnException(
                          Logged(c, [ev |-> "raise", p |-> p, up |-> up,
                                     last |-> TRUE]), p)
               IN IF x.escapes
                  THEN Suspended(x.c, "raised", i, attempt, 0, None)
                  ELSE RunLoop(x.c, i + 1)
          ELSE Suspended(Logged(c, [ev |-> "raise", p |-> p, up |-> up,
                                    last |-> FALSE]),
                         "sleep", i, attempt, now + Backoff(attempt), None)
     ELSE LET c1 == Logged(c, [ev |-> "return", p |-> p, up |-> up,
                               res |-> res])
          IN IF Accepts(c.q, res)
             THEN Suspended(RecordSuccess(c1, p), "setex", i, attempt, 0, res)
             ELSE RunLoop(c1, i + 1)

\* a league-specific operation from its try: up to the next await
LeagueCall(c) ==
  IF LeagueIdDefined(c.q.league)
  THEN Suspended(Logged(c, [ev |-> "invoke", p |-> "api_football",
                            brk |-> c.st["api_football"]]),
                 "call", 1, 0, 0, None)
  ELSE LET x == OnException(
                  Logged(c, [ev |-> "raise", p |-> "api_football",
                             up |-> "settings", last |-> TRUE]),
                  "api_football")
       IN Suspended(x.c, IF x.escapes THEN "raised" ELSE "stale_get",
                    1, 0, 0, None)

\* a league-specific operation from the provider's answer to the next await
LeagueAfterCall(c, up) ==
  LET r0 == ProviderOp("api_football", c.q, up)
      res == IF c.q.kind = "fixtures" /\ r0.t = "list" /\ Len(r0.items) = 0
             THEN None ELSE r0
  IN IF r0 = Raise
     THEN LET x == OnException(
                     Logged(c, [ev |-> "raise", p |-> "api_football",
                                up |-> up, last |-> TRUE]),
                     "api_football")
          IN Suspended(x.c, IF x.escapes THEN "raised" ELSE "stale_get",
                       1, 0, 0, None)
     ELSE LET c1 == Logged(c, [ev |-> "return", p |-> "api_football",
                               up |-> up, res |-> r0])
          IN IF res # None
             THEN Suspended(RecordSuccess(c1, "api_football"),
                            "setex", 1, 0, 0, res)
             ELSE Suspended(c1, "stale_get", 1, 0, 0, None)

\* ----------------------------------------------------------------- actions
Ctx(t) ==
  [q |-> task[t].q, st |-> state, fl |-> failures, tm |-> timers,
   oa |-> openedAt, log |-> task[t].log, em |-> task[t].em]

\* the task (from record base) and the breaker after the code that ran up
\* to the await s
Resume(t, base, s) ==
  /\ Len(s.c.tm) <= MaxTimers
  /\ state' = s.c.st
  /\ failures' = s.c.fl
  /\ timers' = s.c.tm
  /\ openedAt' = s.c.oa
  /\ task' = [task EXCEPT ![t] =
                [base EXCEPT !.pc = s.pc, !.idx = s.idx,
                             !.attempt = s.attempt, !.wake = s.wake,
                             !.result = s.result, !.log = s.c.log,
                             !.em = s.c.em,
                             !.via = IF s.pc = "raised" THEN "raised" ELSE @,
                             !.doneAt = IF s.pc = "raised" THEN now ELSE @]]

\* the built-in dataset of _get_mock_<league>_fixtures / _standings
MockData(q) ==
  IF q.kind = "fixtures" THEN List(<<Model("mock")>>) ELSE Model("mock")

\* variant used to test C7: every fixtures and standings operation has mock data
HasMockEverywhere(q) == q.kind \in {"fixtures", "standings"}

HasMock(q) == ~IsGeneral(q) /\ q.kind \in {"fixtures", "standings"}

\* the value an operation returns when nothing is left to try
EmptyResult(q) ==
  IF q.kind \in {"live", "fixtures"} THEN List(<<>>) ELSE None

\* the name under which track_fallback_activation counts a fallback
Activation(via) == IF via = "stale" THEN "stale_cache" ELSE "league_mock"

\* variant used to test C30: the mock dataset is preferred to a stale value
AfterStaleMockFirst(q, stale_data) ==
  IF HasMock(q) /\ Truthy(MockData(q))
  THEN [result |-> MockData(q), via |-> "mock"]
  ELSE IF Truthy(stale_data)
       THEN [result |-> stale_data, via |-> "stale"]
       ELSE [result |-> EmptyResult(q), via |-> "empty"]

\* the tail of each operation, from stale_data on
AfterStale(q, stale_data) ==
  IF Truthy(stale_data)
  THEN [result |-> stale_data, via |-> "stale"]
  ELSE IF HasMock(q) /\ Truthy(MockData(q))
       THEN [result |-> MockData(q), via |-> "mock"]
       ELSE [result |-> EmptyResult(q), via |-> "empty"]

\* what Redis does with a request: it answers, it cannot be reached or the
\* call raises ("down"), or the stored text is not JSON ("garbage")
StoreReads == IF mode = "store" THEN {"ok", "down", "garbage"} ELSE {"ok"}
StoreWrites == IF mode = "store" THEN {"ok", "down"} ELSE {"ok"}

\* variant used to test C16: a failed cache read raises to the operation
CacheLookupRaises(k, up) == IF up = "ok" THEN GetFromCache(k) ELSE Raise

\* _get_from_cache with the except branches of RedisClient.get and of the
\* helper itself: every failure ends in `return None`
CacheLookup(k, up) == IF up = "ok" THEN GetFromCache(k) ELSE None

\* _get_stale_data, likewise
StaleLookup(k, up) == IF up = "ok" THEN GetStaleData(k) ELSE None

\* what a failed Redis request adds to the query's record
Noted(base, op, up) ==
  IF up = "ok" THEN base
  ELSE [base EXCEPT !.cerr = @ \cup {[op |-> op, up |-> up]}]

\* the operation ends (return or exception) without touching the breaker
Finish(t, base, c, pc, via, result) ==
  /\ task' = [task EXCEPT ![t] =
                [base EXCEPT !.pc = pc, !.via = via, !.result = result,
                             !.log = c.log, !.em = c.em, !.doneAt = now]]
  /\ UNCHANGED <<state, failures, timers, openedAt>>

\* another query for the same key is past its cache miss and not finished
InFlight(t, key) ==
  \E u \in Tasks \ {t} :
    /\ task[u].pc \in {"call", "sleep", "setex", "stale_get"}
    /\ task[u].key = key

\* the operations the callers of a run await: any of the sixteen public
\* ones, the live-score ones in a burst, and in a Celery worker the two that
\* _async_sync_live_data and _async_sync_standings await
QueriesOf(m) ==
  IF m = "burst" THEN {q \in Queries : q.kind = "live"}
  ELSE IF m = "worker"
       THEN {q \in Queries : IsGeneral(q) /\ q.kind \in {"live", "standings"}}
       ELSE Queries

\* a caller awaits one of the sixteen public query operations
StartQuery(t) ==
  /\ task[t].pc = "idle"
  /\ IF mode \in {"pair", "burst"} THEN quota > 0 ELSE t = 1
  /\ quota' = IF mode \in {"pair", "burst"} THEN quota - 1 ELSE quota
  /\ \E q \in QueriesOf(mode) :
       \E em \in (IF mode = "metrics" THEN 0..MaxEmit ELSE {0}) :
         task' = [task EXCEPT ![t] =
                    [IdleTask EXCEPT !.pc = "cache_get", !.q = q, !.em = em,
                                     !.key = CacheKey(q, Date(now))]]
  /\ UNCHANGED <<now, horizon, mode, boot, state, failures, timers, cache, openedAt, written>>

\* cached_data = await self._get_from_cache(cache_key) and what follows it
CacheRead(t) ==
  /\ task[t].pc = "cache_get"
  /\ \E up \in StoreReads :
       LET cached_data == CacheLookup(task[t].key, up)
           base == Noted([task[t] EXCEPT
                            !.sawEntry =
                              up = "ok" /\ RedisGet(task[t].key) # Nil,
                            !.readSaw = written[task[t].key],
                            !.raced = InFlight(t, task[t].key)],
                         "get", up)
           c == Ctx(t)
       IN IF cached_data = Raise
          THEN Finish(t, base, c, "raised", "raised", None)
          ELSE IF Truthy(cached_data)
          THEN IF EmitRaises(c)
               THEN Finish(t, base, EmitFailed(c, "cache", "hit"),
                           "raised", "raised", None)
               ELSE Finish(t, base, Emitted(c), "done", "hit", cached_data)
          ELSE IF EmitRaises(c)
               THEN Finish(t, base, EmitFailed(c, "cache", "miss"),
                           "raised", "raised", None)
               ELSE Resume(t, base, IF IsGeneral(task[t].q)
                                    THEN RunLoop(Emitted(c), 1)
                                    ELSE LeagueCall(Emitted(c)))
  /\ UNCHANGED <<now, horizon, mode, quota, boot, cache, written>>

\* the upstream outcomes explored for a query
UpstreamOf(q) ==
  IF IsGeneral(q) /\ horizon = LongHorizon
  THEN Upstream \ {"malformed"} ELSE Upstream

\* the awaited provider coroutine completes
ProviderReturn(t) ==
  /\ task[t].pc = "call"
  /\ \E up \in UpstreamOf(task[t].q) :
       Resume(t, task[t],
              IF IsGeneral(task[t].q)
              THEN AfterCall(Ctx(t), task[t].idx, task[t].attempt, up)
              ELSE LeagueAfterCall(Ctx(t), up))
  /\ UNCHANGED <<now, horizon, mode, quota, boot, cache, written>>

\* asyncio.sleep(1 * (attempt + 1)) in _execute_with_retry is over
WakeUp(t) ==
  /\ task[t].pc = "sleep"
  /\ task[t].wake <= now
  /\ Resume(t, task[t], Invoke(Ctx(t), task[t].idx, task[t].attempt + 1))
  /\ UNCHANGED <<now, horizon, mode, quota, boot, cache, written>>

\* await self._set_to_cache(cache_key, result, ttl);
\* monitor_api_call(.., "success"); return result   (an exception of the
\* emission is caught by the operation's except branch)
CacheWrite(t) ==
  /\ task[t].pc = "setex"
  /\ Cardinality({k \in Keys : written[k] # Nil} \cup {task[t].key}) <= MaxKeys
  /\ \E up \in StoreWrites :
       LET c == Ctx(t)
           p == c.log[Len(c.log)].p
           base == Noted(task[t], "setex", up)
       IN /\ cache' = IF up = "ok"
                      THEN SetToCache(task[t].key, task[t].result,
                                      TTLOf(task[t].q))
                      ELSE cache
          /\ written' = IF up = "ok"
                        THEN [written EXCEPT ![task[t].key] =
                                [val |-> Dumps(task[t].result),
                                 ttl |-> TTLOf(task[t].q),
                                 data |-> task[t].result, by |-> t]]
                        ELSE written
          /\ IF EmitRaises(c)
             THEN LET x == OnException(EmitFailed(c, p, "success"), p)
                  IN Resume(t, base,
                            IF IsGeneral(task[t].q)
                            THEN RunLoop(x.c, task[t].idx + 1)
                            ELSE Suspended(x.c, "stale_get", 1, 0, 0, None))
             ELSE Finish(t, base, Emitted(c), "done", "provider",
                         task[t].result)
  /\ UNCHANGED <<now, horizon, mode, quota, boot>>

\* stale_data = await self._get_stale_data(cache_key) and the returns after
\* (a text that json.loads rejected at the first read is rejected again)
StaleRead(t) ==
  /\ task[t].pc = "stale_get"
  /\ \E up \in StoreReads :
       /\ up = "ok" => [op |-> "get", up |-> "garbage"] \notin task[t].cerr
       /\ LET r == AfterStale(task[t].q, StaleLookup(task[t].key, up))
              c == Ctx(t)
              base == Noted([task[t] EXCEPT
                               !.staleSaw = written[task[t].key]],
                            "stale", up)
          IN IF r.via = "empty"
             THEN Finish(t, base, c, "done", r.via, r.result)
             ELSE IF EmitRaises(c)
                  THEN Finish(t, base, EmitFailed(c, "fallback", r.via),
                              "raised", "raised", None)
                  ELSE Finish(t, [base EXCEPT !.fb = Activation(r.via)],
                              Emitted(c), "done", r.via, r.result)
  /\ UNCHANGED <<now, horizon, mode, quota, boot, cache, written>>

\* the caller has the result or the exception; the task slot is free again.
\* In a Celery worker the caller is asyncio.run, which on the way out cancels
\* every task still pending on its loop, the sleeping
\* _reset_circuit_breaker tasks among them, and closes the loop
Return(t) ==
  /\ task[t].pc \in {"done", "raised"}
  /\ task' = [task EXCEPT ![t] = IdleTask]
  /\ timers' = IF mode = "worker" THEN <<>> ELSE timers
  /\ UNCHANGED <<now, horizon, mode, quota, boot, state, failures, cache, openedAt, written>>

\* variant used to test C15: the reset closes the breaker and keeps the count
ResetCircuitBreakerKeepsCount ==
  \E i \in 1..Len(timers) :
    /\ timers[i].at <= now
    /\ state' = [state EXCEPT ![timers[i].p] = "CLOSED"]
    /\ openedAt' = [openedAt EXCEPT ![timers[i].p] = 0]
    /\ failures' = failures
    /\ timers' = [k \in 1..(Len(timers) - 1) |->
                    IF k < i THEN timers[k] ELSE timers[k + 1]]
    /\ UNCHANGED <<now, horizon, mode, quota, boot, cache, task, written>>

\* UnifiedDataService._reset_circuit_breaker after its sleep
ResetCircuitBreaker ==
  \E i \in 1..Len(timers) :
    /\ timers[i].at <= now
    /\ state' = [state EXCEPT ![timers[i].p] = "CLOSED"]
    /\ openedAt' = [openedAt EXCEPT ![timers[i].p] = 0]
    /\ failures' = [failures EXCEPT ![timers[i].p] = 0]
    /\ timers' = [k \in 1..(Len(timers) - 1) |->
                    IF k < i THEN timers[k] ELSE timers[k + 1]]
    /\ UNCHANGED <<now, horizon, mode, quota, boot, cache, task, written>>

\* the instants at which a sleeping coroutine is due
Deadlines ==
  {timers[i].at : i \in 1..Len(timers)}
    \cup {task[t].wake : t \in {u \in Tasks : task[u].pc = "sleep"}}

\* time passes, up to the next due sleeper; Redis drops the expired keys
Advance ==
  /\ \A d \in Deadlines : d > now
  /\ \E n \in {now + Step} \cup Deadlines :
       /\ n <= horizon
       /\ \A d \in Deadlines : n <= d
       /\ now' = n
       /\ cache' = [k \in Keys |->
                      IF cache[k] # Nil /\ cache[k].exp <= n
                      THEN Nil ELSE cache[k]]
  /\ UNCHANGED <<horizon, mode, quota, boot, state, failures, timers, task, openedAt, written>>

Next ==
  \/ \E t \in Tasks : StartQuery(t)
  \/ \E t \in Tasks : CacheRead(t)
  \/ \E t \in Tasks : ProviderReturn(t)
  \/ \E t \in Tasks : WakeUp(t)
  \/ \E t \in Tasks : CacheWrite(t)
  \/ \E t \in Tasks : StaleRead(t)
  \/ \E t \in Tasks : Return(t)
  \/ ResetCircuitBreaker
  \/ Advance

Spec == Init /\ [][Next]_vars

\* the service in any of the explored environments
SpecEnv == InitEnv /\ [][Next]_vars

\* the service with working metrics, serving the API or run by Celery
SpecProc == InitProc /\ [][Next]_vars

\* ================================================================== claims
\* what a query's log says
Invoked(t, p) ==
  \E k \in DOMAIN task[t].log :
    task[t].log[k].ev = "invoke" /\ task[t].log[k].p = p

\* a provider result that is neither None nor an empty list
NonEmpty(res) ==
  res.t \notin {"None", "raise"} /\ ~(res.t = "list" /\ Len(res.items) = 0)

\* C1: if a fresh cache entry exists for the query's key, the query returns
\* the cached value and invokes no provider.
C1_CacheHitShortCircuits ==
  \A t \in Tasks :
    task[t].sawEntry =>
      /\ task[t].pc = "done"
      /\ task[t].via = "hit"
      /\ \A p \in ProviderNames : ~Invoked(t, p)

\* the priority the claim names: api_football, football_data, statsbomb
PriorityIndex(p) ==
  CASE p = "api_football" -> 1
    [] p = "football_data" -> 2
    [] p = "statsbomb" -> 3

\* a log entry after which the loop may move past the entry's provider
SettledEntry(q, e) ==
  \/ e.ev = "skip" /\ e.brk = "OPEN"
  \/ e.ev = "raise" /\ e.last
  \/ e.ev = "return" /\ ~NonEmpty(e.res)

\* C2: within a query, providers are invoked in increasing priority order
\* (api_football, football_data, statsbomb); a provider is invoked only
\* after every higher-priority provider was skipped with an OPEN breaker or
\* was attempted and failed (raised on its last attempt, or returned None
\* or an empty list).
C2_FallbackOrder ==
  \A t \in Tasks :
    LET log == task[t].log
    IN \A k \in DOMAIN log :
         log[k].ev = "invoke" =>
           /\ \A j \in 1..(k - 1) :
                log[j].ev = "invoke" =>
                  PriorityIndex(log[j].p) <= PriorityIndex(log[k].p)
           /\ \A h \in ProviderNames :
                PriorityIndex(h) < PriorityIndex(log[k].p) =>
                  \E j \in 1..(k - 1) :
                    log[j].p = h /\ SettledEntry(task[t].q, log[j])

\* C2 witness: a query skipped api_football (OPEN), saw football_data raise
\* on its last attempt and went on to invoke statsbomb
C2_Witness ==
  \E t \in Tasks :
    LET log == task[t].log
    IN /\ \E k \in DOMAIN log : log[k].ev = "skip" /\ log[k].p = "api_football"
       /\ \E k \in DOMAIN log :
            log[k].ev = "raise" /\ log[k].p = "football_data" /\ log[k].last
       /\ Invoked(t, "statsbomb")

\* C3: a provider whose breaker is OPEN is never invoked by a query.
C3_OpenBreakerNotInvoked ==
  \A t \in Tasks :
    \A k \in DOMAIN task[t].log :
      task[t].log[k].ev = "invoke" => task[t].log[k].brk # "OPEN"

\* C4: with max_failures = 3, a breaker whose failure count has reached 3
\* is OPEN, and a breaker with 2 recorded failures is still CLOSED.
C4_Threshold ==
  \A p \in ProviderNames :
    /\ failures[p] = 3 => state[p] = "OPEN"
    /\ failures[p] = 2 => state[p] = "CLOSED"

\* C4 witness: a third failure has been recorded and opened the breaker
C4_Witness ==
  \E p \in ProviderNames : failures[p] = 3 /\ state[p] = "OPEN"

\* C5: an OPEN breaker goes back to CLOSED, with failure_count 0, exactly
\* reset_timeout seconds after it opened: not earlier, not later.
C5_ResetExactlyAfterTimeout ==
  [][\A p \in ProviderNames :
       /\ (state[p] = "OPEN" /\ state'[p] = "CLOSED") =>
            (now = openedAt[p] + reset_timeout /\ failures'[p] = 0)
       /\ state'[p] = "OPEN" => now' <= openedAt'[p] + reset_timeout]_vars

\* C6: when every provider failed or was skipped and an entry was written
\* under the key before (expired or not), the query returns that entry's
\* value.
C6_StaleFallback ==
  \A t \in Tasks :
    (/\ task[t].pc = "done"
     /\ task[t].via \in {"stale", "mock", "empty"}
     /\ task[t].staleSaw # Nil) =>
      task[t].result = Loads(task[t].staleSaw.val)

C8_WriteThroughThenHit ==
  \A t \in Tasks :
    (/\ task[t].pc = "done"
     /\ task[t].via = "provider"
     /\ task[t].doneAt = now
     /\ task[t].key = CacheKey(task[t].q, Date(now))) =>
      /\ written[task[t].key].ttl =
           IF task[t].q.kind = "live"
           THEN REDIS_CACHE_TTL_LIVE ELSE REDIS_CACHE_TTL_STATIC
      /\ Truthy(GetFromCache(task[t].key))

\* C9: a query has at most one provider invocation in flight; a provider is
\* invoked only after every invocation made earlier in the query raised or
\* returned None or an empty list; a non-empty result ends the query and is
\* what the query returns, unmerged.
C9_OneProviderAtATime ==
  \A t \in Tasks :
    LET log == task[t].log
    IN /\ \A k \in DOMAIN log : \A j \in 1..(k - 1) :
            (log[j].ev = "invoke" /\ log[k].ev = "invoke") =>
              \E m \in (j + 1)..(k - 1) :
                /\ log[m].p = log[j].p
                /\ \/ log[m].ev = "raise"
                   \/ log[m].ev = "return" /\ ~NonEmpty(log[m].res)
       /\ \A k \in DOMAIN log :
            (log[k].ev = "return" /\ NonEmpty(log[k].res)) =>
              /\ k = Len(log)
              /\ task[t].pc \in {"setex", "done"}
              /\ task[t].result = log[k].res
              /\ task[t].pc = "done" => task[t].via = "provider"

\* C9 witness: football_data's non-empty result was returned after
\* api_football had raised on its last attempt
C9_Witness ==
  \E t \in Tasks :
    /\ task[t].pc = "done"
    /\ task[t].via = "provider"
    /\ task[t].result = List(<<Model("football_data")>>)
    /\ \E k \in DOMAIN task[t].log :
         /\ task[t].log[k].ev = "raise"
         /\ task[t].log[k].p = "api_football"
         /\ task[t].log[k].last

\* C10: a provider operation whose HTTP exchange failed at network level
\* raises; it never returns a value.
C10_NetworkErrorsPropagate ==
  \A t \in Tasks :
    \A k \in DOMAIN task[t].log :
      task[t].log[k].ev = "return" => task[t].log[k].up # "neterr"

\* how many of the first k entries of a log are entries ev of provider p
CountOf(log, ev, p, k) ==
  Cardinality({j \in 1..k : log[j].ev = ev /\ log[j].p = p})

\* the entries a step appended to the log of query t
NewEntries(t) == (Len(task[t].log) + 1)..Len(task'[t].log)

\* query t is running one of the four multi-provider operations
RunsGeneral(t, kind) ==
  task[t].pc # "idle" /\ task[t].q.kind = kind /\ IsGeneral(task[t].q)

\* C11: in get_fixtures, when a provider returns an empty list or None the
\* loop goes on with the next provider (or, after the last one, with the
\* stale read), the step leaves that provider's failure_count and breaker
\* state and the cache unchanged, and only a non-empty result ever reaches
\* the cache write.
C11_FixturesEmptyContinues ==
  [][\A t \in Tasks :
       RunsGeneral(t, "fixtures") =>
         /\ \A k \in NewEntries(t) :
              LET new == task'[t].log
              IN (new[k].ev = "return" /\ ~NonEmpty(new[k].res)) =>
                   /\ failures'[new[k].p] = failures[new[k].p]
                   /\ state'[new[k].p] = state[new[k].p]
                   /\ cache' = cache
                   /\ IF k < Len(new)
                      THEN /\ new[k + 1].ev \in {"skip", "invoke"}
                           /\ PriorityIndex(new[k + 1].p) =
                                PriorityIndex(new[k].p) + 1
                      ELSE /\ PriorityIndex(new[k].p) = 3
                           /\ task'[t].pc = "stale_get"
         /\ task'[t].pc = "setex" => NonEmpty(task'[t].result)]_vars

\* C11 witness: get_fixtures went on to football_data after api_football
\* returned an empty list, with no failure recorded for api_football
C11_Witness ==
  \E t \in Tasks :
    /\ RunsGeneral(t, "fixtures")
    /\ failures["api_football"] = 0
    /\ \E k \in DOMAIN task[t].log :
         /\ task[t].log[k].ev = "return"
         /\ task[t].log[k].p = "api_football"
         /\ task[t].log[k].res = List(<<>>)
         /\ k < Len(task[t].log)
         /\ task[t].log[k + 1].ev = "invoke"
         /\ task[t].log[k + 1].p = "football_data"

\* C12: in get_live_matches an empty list returned by a provider ends the
\* loop: it is the query's result, no further provider and no stale read
\* follows; None returned by a provider is followed by the next provider
\* (or, after the last one, by the stale read).  No provider's
\* get_live_matches returns None, so the None case is checked on the
\* operations that share the `if result is not None` test of
\* get_live_matches: get_match_by_id and get_standings.
C12_LiveEmptyAccepted ==
  \A t \in Tasks :
    (task[t].pc # "idle" /\ IsGeneral(task[t].q)
       /\ task[t].q.kind # "fixtures") =>
      \A k \in DOMAIN task[t].log :
        LET log == task[t].log
        IN log[k].ev = "return" =>
             /\ (task[t].q.kind = "live" /\ log[k].res = List(<<>>)) =>
                  /\ k = Len(log)
                  /\ task[t].pc \in {"setex", "done"}
                  /\ task[t].result = List(<<>>)
                  /\ task[t].pc = "done" => task[t].via = "provider"
             /\ log[k].res = None =>
                  IF k < Len(log)
                  THEN /\ log[k + 1].ev \in {"skip", "invoke"}
                       /\ PriorityIndex(log[k + 1].p) =
                            PriorityIndex(log[k].p) + 1
                  ELSE /\ PriorityIndex(log[k].p) = 3
                       /\ task[t].pc \in {"stale_get", "done"}
                       /\ task[t].pc = "done" => task[t].via # "provider"

\* C12 witness: get_live_matches returned the empty list api_football gave
C12_Witness ==
  \E t \in Tasks :
    /\ RunsGeneral(t, "live")
    /\ task[t].pc = "done"
    /\ task[t].via = "provider"
    /\ task[t].result = List(<<>>)
    /\ task[t].log[Len(task[t].log)].p = "api_football"
    /\ ~Invoked(t, "football_data")

\* C13: under _execute_with_retry a provider is invoked at most 3 times in
\* a query and never again after it returned; the first and the second
\* raise are followed by a sleep of 1 s and of 2 s, after which the call is
\* repeated; the third raise is followed by no sleep and reaches the
\* operation, which records the failure.
C13_BoundedRetry ==
  [][\A t \in Tasks :
       (task[t].pc # "idle" /\ IsGeneral(task[t].q)) =>
         LET new == task'[t].log
         IN /\ \A k \in NewEntries(t) :
                 /\ new[k].ev = "invoke" =>
                      /\ CountOf(new, "invoke", new[k].p, k) <= 3
                      /\ CountOf(new, "return", new[k].p, k) = 0
                 /\ new[k].ev = "raise" =>
                      IF CountOf(new, "raise", new[k].p, k) = 3
                      THEN /\ new[k].last
                           /\ task'[t].pc # "sleep"
                           /\ failures'[new[k].p] = failures[new[k].p] + 1
                      ELSE /\ ~new[k].last
                           /\ k = Len(new)
                           /\ task'[t].pc = "sleep"
                           /\ task'[t].wake =
                                now + CountOf(new, "raise", new[k].p, k)
                           /\ failures' = failures
            /\ (task[t].pc = "sleep" /\ NewEntries(t) # {}) =>
                 LET first == Len(task[t].log) + 1
                 IN /\ now = task[t].wake
                    /\ new[first].ev = "invoke"
                    /\ new[first].p = new[first - 1].p]_vars

\* C13 witness: a provider raised three times in one query, the third time
\* for good
C13_Witness ==
  \E t \in Tasks :
    /\ task[t].pc # "idle"
    /\ IsGeneral(task[t].q)
    /\ \E k \in DOMAIN task[t].log :
         /\ task[t].log[k].ev = "raise"
         /\ task[t].log[k].last
         /\ CountOf(task[t].log, "invoke", task[t].log[k].p, k) = 3

\* C14: failure_count of a provider only goes down in the step of
\* _reset_circuit_breaker, which sets it to 0; no step of a query, a
\* successful call included, lowers it.
C14_FailuresOnlyResetByTimer ==
  [][\A p \in ProviderNames :
       failures'[p] < failures[p] =>
         /\ failures'[p] = 0
         /\ Len(timers') = Len(timers) - 1
         /\ task' = task]_vars

\* C14 witness: a provider with a recorded failure has served a query, and
\* the failure is still counted
C14_Witness ==
  \E t \in Tasks : \E p \in ProviderNames :
    /\ task[t].pc = "done"
    /\ task[t].via = "provider"
    /\ task[t].log[Len(task[t].log)].p = p
    /\ failures[p] > 0
    /\ state[p] = "CLOSED"

\* C15: in every state and for every provider, the breaker is OPEN if and
\* only if failure_count >= max_failures.
C15_OpenIffThreshold ==
  \A p \in ProviderNames :
    state[p] = "OPEN" <=> failures[p] >= max_failures

\* C15 witness: an OPEN breaker whose count went past the threshold
C15_Witness ==
  \E p \in ProviderNames : state[p] = "OPEN" /\ failures[p] > max_failures

\* C17: every query, the league-specific ones included, invokes a provider
\* only with its breaker not OPEN, gives up on a provider only after three
\* raising attempts, and reaches the stale read only after every provider
\* was invoked or skipped.
C17_SameAlgorithm ==
  \A t \in Tasks :
    task[t].pc # "idle" =>
      LET log == task[t].log
      IN /\ \A k \in DOMAIN log :
              /\ log[k].ev = "invoke" => log[k].brk # "OPEN"
              /\ (log[k].ev = "raise" /\ log[k].last) =>
                   CountOf(log, "invoke", log[k].p, k) = 3
         /\ (task[t].pc = "stale_get"
               \/ (task[t].pc = "done"
                     /\ task[t].via \notin {"hit", "provider"})) =>
              \A h \in ProviderNames : \E k \in DOMAIN log : log[k].p = h

\* C20: in a step of a multi-provider query a provider's failure_count
\* grows by the number of calls that raised on their third attempt in that
\* step, so by 1 for three raising attempts; raising attempts that are
\* retried and returns add nothing and leave the breaker state unchanged.
C20_RetriesCountOnce ==
  [][\A t \in Tasks :
       (task[t].pc # "idle" /\ IsGeneral(task[t].q)
          /\ Len(task'[t].log) > Len(task[t].log)) =>
         \A p \in ProviderNames :
           LET new == task'[t].log
               final == {k \in NewEntries(t) :
                           new[k].p = p /\ new[k].ev = "raise" /\ new[k].last}
           IN /\ failures'[p] = failures[p] + Cardinality(final)
              /\ \A k \in final : CountOf(new, "raise", p, k) = 3
              /\ final = {} => state'[p] = state[p]]_vars

\* C20 witness: a call raised, succeeded on a retry and left the provider's
\* count at 0, after an earlier provider had raised three times and been
\* counted once
C20_Witness ==
  \E t \in Tasks :
    /\ task[t].pc = "done"
    /\ task[t].via = "provider"
    /\ failures["api_football"] = 1
    /\ failures["football_data"] = 0
    /\ CountOf(task[t].log, "raise", "api_football", Len(task[t].log)) = 3
    /\ CountOf(task[t].log, "raise", "football_data", Len(task[t].log)) = 1
    /\ task[t].log[Len(task[t].log)].p = "football_data"

\* query t has had a Redis request of kind op fail
CacheFailed(t, op) == \E e \in task[t].cerr : e.op = op

\* C16: a query whose cache read or write failed (Redis unreachable or
\* raising, stored text undecodable) never ends with an exception; after a
\* failed read it is never a cache hit and goes on to the providers; and
\* when a provider gave it a non-empty result, that result is what it
\* returns.
C16_CacheFailuresSwallowed ==
  \A t \in Tasks :
    task[t].cerr # {} =>
      /\ task[t].pc \notin {"raised", "cache_get"}
      /\ CacheFailed(t, "get") => (task[t].via # "hit" /\ task[t].log # <<>>)
      /\ (/\ task[t].pc = "done"
          /\ task[t].log # <<>>
          /\ task[t].log[Len(task[t].log)].ev = "return"
          /\ NonEmpty(task[t].log[Len(task[t].log)].res)) =>
           /\ task[t].via = "provider"
           /\ task[t].result = task[t].log[Len(task[t].log)].res

\* C16 witness: a query whose cache read and cache write both failed has
\* returned the provider's result
C16_Witness ==
  \E t \in Tasks :
    /\ task[t].pc = "done"
    /\ task[t].via = "provider"
    /\ CacheFailed(t, "get")
    /\ CacheFailed(t, "setex")
    /\ NonEmpty(task[t].result)
    /\ cache[task[t].key] = Nil

\* C18: a query in which an emission of monitor_api_call or
\* track_fallback_activation raised does not end with an exception, and
\* when the raising emission is the "success" one the query is over with the
\* provider's result: no failure is recorded and no further provider tried.
C18_EmissionsHarmless ==
  \A t \in Tasks :
    \A k \in DOMAIN task[t].log :
      task[t].log[k].ev = "emit_raise" =>
        /\ task[t].pc # "raised"
        /\ task[t].log[k].at = "success" =>
             /\ k = Len(task[t].log)
             /\ task[t].pc = "done"
             /\ task[t].via = "provider"

\* two queries for the same key, the second of which missed the cache while
\* the first was past its own miss, have both finished after invoking a
\* provider
RacedPair(t, u) ==
  /\ t # u
  /\ task[t].pc = "done" /\ task[u].pc = "done"
  /\ task[t].key = task[u].key
  /\ task[u].raced
  /\ \E p \in ProviderNames : Invoked(t, p)
  /\ \E p \in ProviderNames : Invoked(u, p)

\* C19 as stated: two concurrent queries that both missed the same cold key
\* and both invoked a provider both return a provider result, and the
\* cache then holds one of the results they wrote.
C19_RaceBothProviderResults ==
  \A t \in Tasks : \A u \in Tasks :
    RacedPair(t, u) =>
      /\ task[t].via = "provider" /\ task[u].via = "provider"
      /\ cache[task[t].key] # Nil
      /\ cache[task[t].key].val \in {Dumps(task[t].result),
                                    Dumps(task[u].result)}

\* C19 as amended: each of the two queries returns what its own provider
\* loop gave it (the non-empty or accepted result of the last provider it
\* invoked, unmerged) or, if no provider satisfied it, the value written by
\* the other query, the mock dataset or the empty value; and if either
\* wrote to the cache, the cache holds the value written last.
C19_RaceBenign ==
  \A t \in Tasks : \A u \in Tasks :
    RacedPair(t, u) =>
      /\ \A v \in {t, u} :
           LET w == IF v = t THEN u ELSE t
               log == task[v].log
           IN CASE task[v].via = "provider" ->
                     /\ log[Len(log)].ev = "return"
                     /\ task[v].result = log[Len(log)].res
                [] task[v].via = "stale" ->
                     /\ task[w].via = "provider"
                     /\ task[v].result = Loads(Dumps(task[w].result))
                [] OTHER -> task[v].via \in {"mock", "empty"}
      /\ (task[t].via = "provider" \/ task[u].via = "provider") =>
           /\ cache[task[t].key] # Nil
           /\ cache[task[t].key].val = written[task[t].key].val

\* C19 witness: both queries missed the cold key, both got a result from a
\* provider, the results differ and both were written
C19_Witness ==
  \E t \in Tasks : \E u \in Tasks :
    /\ RacedPair(t, u)
    /\ task[t].via = "provider" /\ task[u].via = "provider"
    /\ ~task[t].sawEntry /\ ~task[u].sawEntry
    /\ task[t].result # task[u].result

\* the final raises of provider p that a step appended to the queries' logs
FinalRaises(p) ==
  UNION {{<<t, k>> : k \in {j \in NewEntries(t) :
                              /\ task'[t].log[j].ev = "raise"
                              /\ task'[t].log[j].last
                              /\ task'[t].log[j].p = p}} : t \in Tasks}

\* C21: under any interleaving of concurrent queries and reset timers,
\* every step that does not reset a provider raises its failure_count by
\* exactly the number of failures the step recorded for it; after every step
\* the breaker is OPEN exactly when the count has reached the threshold; and
\* the step that closes a breaker leaves the count at 0.
C21_AtomicBreakerUpdates ==
  [][\A p \in ProviderNames :
       /\ failures'[p] >= failures[p] =>
            failures'[p] = failures[p] + Cardinality(FinalRaises(p))
       /\ failures'[p] < failures[p] => FinalRaises(p) = {}
       /\ (failures'[p] >= max_failures) <=> (state'[p] = "OPEN")
       /\ (state[p] = "OPEN" /\ state'[p] = "CLOSED") => failures'[p] = 0]_vars

\* C21 witness: while one query sleeps in the backoff of its retry loop on
\* api_football, the failures recorded by the other caller's queries have
\* brought the count to the threshold and opened the breaker
C21_Witness ==
  \E t \in Tasks : \E u \in Tasks \ {t} :
    /\ task[t].pc = "sleep"
    /\ Providers[task[t].idx] = "api_football"
    /\ task[u].pc \in {"stale_get", "done"}
    /\ \E k \in DOMAIN task[u].log :
         /\ task[u].log[k].ev = "raise"
         /\ task[u].log[k].last
         /\ task[u].log[k].p = "api_football"
    /\ failures["api_football"] = max_failures
    /\ state["api_football"] = "OPEN"

\* C22: a query is at its stale read, or past it, only after each of the
\* three providers was skipped (breaker OPEN), failed on its last attempt or
\* returned nothing in that query; and a finished query has recorded a
\* "stale_cache" fallback activation exactly when it returned a stale value.
C22_StaleReadLastResort ==
  \A t \in Tasks :
    /\ (task[t].pc = "stale_get"
          \/ (task[t].pc = "done"
                /\ task[t].via \in {"stale", "mock", "empty"})) =>
         \A h \in ProviderNames :
           \E k \in DOMAIN task[t].log :
             task[t].log[k].p = h /\ SettledEntry(task[t].q, task[t].log[k])
    /\ task[t].pc = "done" =>
         (task[t].fb = "stale_cache" <=> task[t].via = "stale")

\* C23: a query of a multi-provider operation, which tests the breaker
\* before it turns to a provider, never invokes a provider whose breaker is
\* OPEN at the moment of the invocation, retries after a backoff included.
C23_NoInvocationOnceOpen ==
  \A t \in Tasks :
    (task[t].pc # "idle" /\ IsGeneral(task[t].q)) =>
      \A k \in DOMAIN task[t].log :
        task[t].log[k].ev = "invoke" => task[t].log[k].brk # "OPEN"

\* C24: a breaker that closes has been OPEN for at least reset_timeout
\* seconds since its last CLOSED-to-OPEN transition, whichever of the
\* pending reset timers closes it.
C24_OpenAtLeastResetTimeout ==
  [][\A p \in ProviderNames :
       (state[p] = "OPEN" /\ state'[p] = "CLOSED") =>
         now >= openedAt[p] + reset_timeout]_vars

\* C25: every OPEN breaker has a _reset_circuit_breaker task pending for
\* its provider, in a Celery worker too; that task is the only code that
\* closes a breaker, so without one the breaker never returns to CLOSED.
C25_OpenHasPendingReset ==
  \A p \in ProviderNames :
    state[p] = "OPEN" => \E i \in 1..Len(timers) : timers[i].p = p

\* C26: after every step failure_count of every provider is at most
\* max_failures; a step raises the count of a provider only if its breaker
\* was not OPEN before the step; and a step adds a reset timer only if it
\* takes a breaker from CLOSED to OPEN.
C26_CountBounded ==
  [][/\ \A p \in ProviderNames :
          /\ failures'[p] <= max_failures
          /\ failures'[p] > failures[p] => state[p] # "OPEN"
     /\ Len(timers') > Len(timers) =>
          \E p \in ProviderNames :
            state[p] = "CLOSED" /\ state'[p] = "OPEN"]_vars

\* C27: a step raises a provider's failure_count only if in that step a
\* query logged the final raise of a call of that provider that it had
\* invoked max_retries + 1 times; an exception raised before any invocation
\* adds nothing to the count.
C27_CountedOnlyAfterInvocation ==
  [][\A p \in ProviderNames :
       failures'[p] > failures[p] =>
         \E x \in FinalRaises(p) :
           CountOf(task'[x[1]].log, "invoke", p, x[2]) = max_retries + 1]_vars

\* C28: what _get_from_cache makes of a text that _set_to_cache wrote is the
\* value that was written, and a query served from the cache returns the
\* value that the provider returned to the query that wrote the entry.
C28_CacheRoundTrip ==
  /\ \A k \in Keys :
       written[k] # Nil => Loads(written[k].val) = written[k].data
  /\ \A t \in Tasks :
       (task[t].pc = "done" /\ task[t].via = "hit"
          /\ task[t].readSaw # Nil) =>
         task[t].result = task[t].readSaw.data

C30_MockOnlyAfterProviderAndStale ==
  [][/\ \A t \in Tasks :
          (task'[t].via = "mock" /\ task[t].via # "mock") =>
            LET log == task[t].log
            IN /\ task[t].pc = "stale_get"
               /\ ~IsGeneral(task[t].q)
               /\ task[t].q.kind \in {"fixtures", "standings"}
               /\ Len(log) > 0
               /\ \/ log[Len(log)].ev = "raise"
                  \/ /\ log[Len(log)].ev = "return"
                     /\ ~NonEmpty(log[Len(log)].res)
               /\ \/ ~Truthy(GetFromCache(task[t].key))
                  \/ task'[t].cerr # task[t].cerr
               /\ task'[t].result = MockData(task[t].q)
               /\ cache' = cache
               /\ written' = written
     /\ \A k \in Keys :
          cache'[k] # Nil =>
            cache'[k].val \notin {Dumps(MockData(q)) : q \in Queries}]_vars

\* C30 witness: a league-specific fixtures query whose api_football call
\* returned nothing found nothing under its key and returned the mock
\* dataset, and the cache is still empty for that key
C30_Witness ==
  \E t \in Tasks :
    /\ task[t].pc = "done"
    /\ task[t].via = "mock"
    /\ task[t].q.kind = "fixtures"
    /\ Invoked(t, "api_football")
    /\ task[t].log[Len(task[t].log)].ev = "return"
    /\ task[t].result = List(<<Model("mock")>>)
    /\ cache[task[t].key] = Nil

====
